---- MODULE Spec2Model ----
(***************************************************************************)
(* Model of the IO grader (main.js): getInputs, parseGradleTestResults,    *)
(* executeTest, compareOutput, countPassedTests and run.                   *)
(*                                                                         *)
(* Strings are sequences of symbols.  "SP" is a blank, "NL" a line feed;   *)
(* every other symbol stands for a run of non-blank characters that the    *)
(* regular expressions of the program treat as a unit ("PASSED", "FAILED", *)
(* ">", and words such as "a" or "x").  Numbers are exact fractions        *)
(* [n, d]; d = 0 is NaN.  Within the bounds used here IEEE doubles give    *)
(* the same products and the same comparisons as the exact fractions.      *)
(***************************************************************************)
EXTENDS Integers, Sequences, FiniteSets, TLC

VARIABLES
  pc,            \* position of run()
  cfg,           \* the raw action inputs, as core.getInput returns them
  inputs,        \* run's `inputs`
  setupExit,     \* how the setup command ended ("none": not started)
  testRan,       \* the test command was started
  output,        \* run's `output`
  error,         \* run's `error` (<<>> is undefined)
  parsedResults, \* run's `parsedResults`
  taskCount,
  taskPassed,
  status,
  message,
  maxScore,
  passScore,
  score,
  thrown,        \* the exception on its way to run's catch (<<>> is none)
  emitted        \* the envelopes handed to core.setOutput('result', ...)

vars == <<pc, cfg, inputs, setupExit, testRan, output, error, parsedResults,
          taskCount, taskPassed, status, message, maxScore, passScore, score,
          thrown, emitted>>

----------------------------------------------------------------------------
(* Bounds *)

MaxLeaves == 5
MaxParseLines == 2
MaxDepth == 3
MaxScoreCfg == 5
PassScoreCfg == 3

----------------------------------------------------------------------------
(* Strings *)

WS == {"SP", "NL"}

RECURSIVE TrimStart(_)
TrimStart(s) ==
  IF s # <<>> /\ Head(s) \in WS THEN TrimStart(Tail(s)) ELSE s

RECURSIVE TrimEnd(_)
TrimEnd(s) ==
  IF s # <<>> /\ s[Len(s)] \in WS THEN TrimEnd(SubSeq(s, 1, Len(s) - 1)) ELSE s

\* String.prototype.trim
Trim(s) == TrimEnd(TrimStart(s))

\* String.prototype.includes
Includes(s, t) ==
  \E i \in 0..(Len(s) - Len(t)) : SubSeq(s, i + 1, i + Len(t)) = t

\* s.split('\n')
RECURSIVE SplitLines(_)
SplitLines(s) ==
  IF \A i \in 1..Len(s) : s[i] # "NL" THEN <<s>>
  ELSE LET i == CHOOSE j \in 1..Len(s) :
                  s[j] = "NL" /\ \A k \in 1..(j - 1) : s[k] # "NL"
       IN <<SubSeq(s, 1, i - 1)>> \o SplitLines(SubSeq(s, i + 1, Len(s)))

\* the first index of the run of blanks that ends at i
RECURSIVE RunStart(_, _)
RunStart(s, i) == IF i > 1 /\ s[i - 1] \in WS THEN RunStart(s, i - 1) ELSE i

\* the last index of the run of blanks that starts at i
RECURSIVE RunEnd(_, _)
RunEnd(s, i) == IF i < Len(s) /\ s[i + 1] \in WS THEN RunEnd(s, i + 1) ELSE i

\* the places of a ">" with a blank on both sides: the matches of /\s+>\s+/
ArrowAt(s) ==
  {g \in 2..(Len(s) - 1) : s[g] = ">" /\ s[g - 1] \in WS /\ s[g + 1] \in WS}

\* s.split(/\s+>\s+/)
RECURSIVE SplitArrow(_)
SplitArrow(s) ==
  IF ArrowAt(s) = {} THEN <<s>>
  ELSE LET g == CHOOSE x \in ArrowAt(s) : \A y \in ArrowAt(s) : x <= y
       IN <<SubSeq(s, 1, RunStart(s, g - 1) - 1)>>
            \o SplitArrow(SubSeq(s, RunEnd(s, g + 1) + 1, Len(s)))

\* the places where /(.+)\s+(PASSED|FAILED)/ can put its token: a blank
\* before it and at least one character before the blank
TokenAt(line) ==
  {k \in 3..Len(line) : line[k] \in {"PASSED", "FAILED"} /\ line[k - 1] \in WS}

\* trimmedLine.match(/(.+)\s+(PASSED|FAILED)/): (.+) is greedy, so the token
\* is the last one; <<>> is null
LineMatch(line) ==
  IF TokenAt(line) = {} THEN <<>>
  ELSE LET k == CHOOSE x \in TokenAt(line) : \A y \in TokenAt(line) : y <= x
       IN <<SubSeq(line, 1, k - 2), line[k]>>

----------------------------------------------------------------------------
(* The hierarchy parser.  A tree is a function from paths (sequences of   *)
(* keys, a key being a string) to "true", "false" or "object"; the root   *)
(* object is the empty path and is not stored.                             *)

EmptyTree == [p \in {} |-> "object"]

IsPrefix(p, q) == Len(p) <= Len(q) /\ SubSeq(q, 1, Len(p)) = p

\* node[key] = value on an object of the tree: what was below the key is gone
SetKey(t, p, v) ==
  [q \in {r \in DOMAIN t : ~IsPrefix(p, r)} \cup {p} |->
     IF q = p THEN v ELSE t[q]]

\* the values `currentLevel` takes: an object of the tree, the primitive
\* true, or undefined
ObjectAt(p) == [kind |-> "object", path |-> p]
PrimitiveTrue == [kind |-> "true", path |-> <<>>]
Undefined == [kind |-> "undefined", path |-> <<>>]

Threw == [ok |-> FALSE, tree |-> EmptyTree]

\* !currentLevel[level], for currentLevel an object of the tree
Falsy(t, p) == p \notin DOMAIN t \/ t[p] = "false"

\* hierarchy.forEach((level, index) => ...), from index i on.  A property
\* written on the primitive true is dropped (the script is not strict); a
\* property of undefined raises TypeError.
RECURSIVE Walk(_, _, _, _, _)
Walk(t, currentLevel, hierarchy, i, isPassed) ==
  IF currentLevel.kind = "undefined" THEN Threw
  ELSE IF i = Len(hierarchy) THEN
    IF currentLevel.kind = "object"
      THEN [ok |-> TRUE,
            tree |-> SetKey(t, Append(currentLevel.path, hierarchy[i]),
                            IF isPassed THEN "true" ELSE "false")]
      ELSE [ok |-> TRUE, tree |-> t]
  ELSE IF currentLevel.kind = "true"
    THEN Walk(t, Undefined, hierarchy, i + 1, isPassed)
  ELSE LET p == Append(currentLevel.path, hierarchy[i])
           t2 == IF Falsy(t, p) THEN SetKey(t, p, "object") ELSE t
       IN Walk(t2, IF t2[p] = "object" THEN ObjectAt(p) ELSE PrimitiveTrue,
               hierarchy, i + 1, isPassed)

\* the body of testResults.split('\n').forEach((line) => ...)
ParseLine(t, line) ==
  LET match == LineMatch(Trim(line)) IN
  IF match = <<>> THEN [ok |-> TRUE, tree |-> t]
  ELSE Walk(t, ObjectAt(<<>>), SplitArrow(match[1]), 1, match[2] = "PASSED")

RECURSIVE ParseLines(_, _, _)
ParseLines(t, lines, i) ==
  IF i > Len(lines) THEN [ok |-> TRUE, tree |-> t]
  ELSE LET r == ParseLine(t, lines[i])
       IN IF r.ok THEN ParseLines(r.tree, lines, i + 1) ELSE Threw

parseGradleTestResults(testResults) ==
  ParseLines(EmptyTree, SplitLines(testResults), 1)

----------------------------------------------------------------------------
(* countPassedTests *)

Children(t, p) == {q \in DOMAIN t : Len(q) = Len(p) + 1 /\ IsPrefix(p, q)}

RECURSIVE CountKeys(_, _, _)
RECURSIVE CountNode(_, _)

\* for (let key in node) ..., the keys still to visit being `keys`;
\* the result is <<taskCount, taskPassed>>
CountKeys(t, keys, acc) ==
  IF keys = {} THEN acc
  ELSE LET q == CHOOSE x \in keys : TRUE
           sub == IF t[q] = "object" THEN CountNode(t, q)
                  ELSE <<1, IF t[q] = "true" THEN 1 ELSE 0>>
       IN CountKeys(t, keys \ {q}, <<acc[1] + sub[1], acc[2] + sub[2]>>)

CountNode(t, p) == CountKeys(t, Children(t, p), <<0, 0>>)

\* countPassedTests switching on `typeof key`: a key is a string, so
\* nothing is counted
countPassedTestsTypeofKey(node) == <<0, 0>>

countPassedTests(node) == CountNode(node, <<>>)

----------------------------------------------------------------------------
(* Numbers: exact fractions in lowest terms, d > 0; d = 0 is NaN *)

RECURSIVE Gcd(_, _)
Gcd(a, b) == IF b = 0 THEN a ELSE Gcd(b, a % b)

Abs(a) == IF a < 0 THEN 0 - a ELSE a

NaN == [n |-> 0, d |-> 0]

Frac(a, b) ==
  IF b = 0 THEN NaN
  ELSE LET g == Gcd(Abs(a), Abs(b))
           sgn == IF b < 0 THEN 0 - 1 ELSE 1
       IN [n |-> sgn * (a \div g), d |-> sgn * (b \div g)]

Whole(a) == [n |-> a, d |-> 1]

IsNaN(x) == x.d = 0

\* x * y
Times(x, y) == IF IsNaN(x) \/ IsNaN(y) THEN NaN ELSE Frac(x.n * y.n, x.d * y.d)

\* x / y for integers x, y with y # 0
Over(x, y) == Frac(x, y)

\* x * 0.8
TimesPoint8(x) == Times(x, Frac(4, 5))

\* x < y: false when either is NaN
Less(x, y) == ~IsNaN(x) /\ ~IsNaN(y) /\ x.n * y.d < y.n * x.d

\* x === 0
IsZero(x) == ~IsNaN(x) /\ x.n = 0

----------------------------------------------------------------------------
(* compareOutput *)

Methods == {"exact", "contains", "regex"}

\* new RegExp(expected) raises SyntaxError on an unbalanced "("
RegexCompiles(expected) == \A i \in 1..Len(expected) : expected[i] # "("

\* regex.test(output): "." is any character but a line feed, every other
\* symbol is itself; the match may start anywhere
RegexTest(expected, out) ==
  \E i \in 0..(Len(out) - Len(expected)) :
    \A j \in 1..Len(expected) :
      IF expected[j] = "." THEN out[i + j] # "NL" ELSE out[i + j] = expected[j]

\* [threw |-> TRUE, error |-> message] or [threw |-> FALSE, value |-> boolean]
Raise(msg) == [threw |-> TRUE, error |-> msg, value |-> FALSE]
Return(v) == [threw |-> FALSE, error |-> <<>>, value |-> v]

\* compareOutput with 'contains' the wrong way round: expected.includes(output)
compareOutputSwapped(out, expected, method) ==
  CASE method = "exact" -> Return(out = expected)
    [] method = "contains" -> Return(Includes(expected, out))
    [] method = "regex" ->
         IF RegexCompiles(expected) THEN Return(RegexTest(expected, out))
         ELSE Raise(<<"SyntaxError: Invalid regular expression">>)
    [] OTHER -> Raise(<<"Invalid comparison method: ", method>>)

compareOutput(out, expected, method) ==
  CASE method = "exact" -> Return(out = expected)
    [] method = "contains" -> Return(Includes(out, expected))
    [] method = "regex" ->
         IF RegexCompiles(expected) THEN Return(RegexTest(expected, out))
         ELSE Raise(<<"SyntaxError: Invalid regular expression">>)
    [] OTHER -> Raise(<<"Invalid comparison method: ", method>>)

----------------------------------------------------------------------------
(* getInputs *)

\* a numeric input as the host hands it over: not set, an integer in
\* decimal digits, or text that is no number
Unset == [k |-> "unset", v |-> 0]
Digits(i) == [k |-> "int", v |-> i]
Text == [k |-> "text", v |-> 0]

\* parseInt(core.getInput(name) || 0)
ParseIntOr0(raw) ==
  CASE raw.k = "unset" -> Whole(0)
    [] raw.k = "int" -> Whole(raw.v)
    [] OTHER -> NaN

\* run's `let inputs = {}`: every property is undefined, which the catch
\* path reads like the empty string
NoInputs ==
  [testName |-> <<>>, setupCommand |-> <<>>, command |-> <<>>,
   expectedOutput |-> <<>>, comparisonMethod |-> "",
   passScore |-> Whole(0), maxScore |-> Whole(0)]

Thrown(msg) == [threw |-> TRUE, error |-> msg, value |-> NoInputs]
Inputs(v) == [threw |-> FALSE, error |-> <<>>, value |-> v]

\* getInputs without the check of the comparison method
getInputsNoMethodCheck(c) ==
  IF c.testName = <<>>
    THEN Thrown(<<"Input required and not supplied: ", "test-name">>)
  ELSE IF c.command = <<>>
    THEN Thrown(<<"Input required and not supplied: ", "command">>)
  ELSE LET pass == ParseIntOr0(c.passScore)
           max == ParseIntOr0(c.maxScore)
       IN Inputs([testName |-> c.testName,
                  setupCommand |-> c.setupCommand,
                  command |-> c.command,
                  expectedOutput |-> c.expectedOutput,
                  comparisonMethod |-> c.comparisonMethod,
                  passScore |-> IF Less(Whole(0), pass) THEN pass
                                ELSE TimesPoint8(max),
                  maxScore |-> max])

\* core.getInput(name, {required: true}) raises when the input is empty
getInputs(c) ==
  IF c.testName = <<>>
    THEN Thrown(<<"Input required and not supplied: ", "test-name">>)
  ELSE IF c.command = <<>>
    THEN Thrown(<<"Input required and not supplied: ", "command">>)
  ELSE IF c.comparisonMethod # "" /\ c.comparisonMethod \notin Methods
    THEN Thrown(<<"Invalid comparison method: ", c.comparisonMethod>>)
  ELSE LET pass == ParseIntOr0(c.passScore)
           max == ParseIntOr0(c.maxScore)
       IN Inputs([testName |-> c.testName,
                  setupCommand |-> c.setupCommand,
                  command |-> c.command,
                  expectedOutput |-> c.expectedOutput,
                  comparisonMethod |-> c.comparisonMethod,
                  passScore |-> IF Less(Whole(0), pass) THEN pass
                                ELSE TimesPoint8(max),
                  maxScore |-> max])

----------------------------------------------------------------------------
(* The inputs and the outputs of the child processes that are explored *)

ExpectedOutputs == {<<>>, <<"x">>, <<".">>, <<"(">>}

Configs ==
  [testName : {<<>>, <<"t">>},
   setupCommand : {<<>>, <<"setup">>},
   command : {<<>>, <<"cmd">>},
   expectedOutput : ExpectedOutputs,
   comparisonMethod : {""} \cup Methods \cup {"included"},
   passScore : {Unset, Text, Digits(0 - 1), Digits(PassScoreCfg)},
   maxScore : {Unset, Text, Digits(0 - 1), Digits(0), Digits(MaxScoreCfg)}]

\* the i-th test name of a report
TestKey(i) == [j \in 1..i |-> "t"]

\* "<path[1]> > <path[2]> > ... <token>"
RECURSIVE PathText(_)
PathText(path) ==
  IF Len(path) = 1 THEN path[1]
  ELSE path[1] \o <<"SP", ">", "SP">> \o PathText(Tail(path))

ReportLine(path, token) == PathText(path) \o <<"SP", token>>

\* a report of n tests under suite S, the first k of them passed, each line
\* ended by a line feed
RECURSIVE Report(_, _)
Report(n, k) ==
  IF n = 0 THEN <<>>
  ELSE Report(n - 1, IF k < n THEN k ELSE n - 1)
         \o ReportLine(<<<<"S">>, TestKey(n)>>,
                       IF k >= n THEN "PASSED" ELSE "FAILED")
         \o <<"NL">>

\* what the test command may write to stdout
Stdouts ==
  {Report(n, k) : n \in 1..MaxLeaves, k \in 0..MaxLeaves}
    \cup {<<>>, <<"x">>, <<"y">>, <<"x", "NL">>, <<"y", "SP", "x">>,
          ReportLine(<<<<"a">>>>, "PASSED") \o <<"NL">>
            \o ReportLine(<<<<"a">>, <<"b">>, <<"c">>>>, "PASSED")}

Outcomes == {"ok", "failed", "timeout"}

----------------------------------------------------------------------------
(* run *)

Null == <<>>

\* what execSync raises
CommandFailed == <<"Command failed: ">>
SpawnTimedOut == <<"spawnSync /bin/sh ETIMEDOUT">>
ExecError(outcome) == IF outcome = "timeout" THEN SpawnTimedOut ELSE CommandFailed

\* e.message.includes('ETIMEDOUT') ? 'Command was killed due to timeout' : e.message
TestError(e) ==
  IF e = SpawnTimedOut THEN <<"Command was killed due to timeout">> ELSE e

\* executeTest: <<output, error>>
executeTest(outcome, stdout) ==
  IF outcome = "ok" THEN <<Trim(stdout), Null>>
  ELSE <<Trim(stdout), TestError(ExecError(outcome))>>

\* JSON.stringify of a number: NaN becomes null
JsonNumber(x) ==
  IF IsNaN(x) THEN [null |-> TRUE, n |-> 0, d |-> 1]
  ELSE [null |-> FALSE, n |-> x.n, d |-> x.d]

\* the envelope of the success path (test_code, filename and line_no left out)
ResultEnvelope ==
  [version |-> 1, status |-> status, max_score |-> JsonNumber(maxScore),
   tests |-> <<[name |-> inputs.testName, status |-> status,
                message |-> message, execution_time |-> "elapsed",
                score |-> JsonNumber(score)]>>]

\* the envelope of the catch path
ErrorEnvelope ==
  [version |-> 1, status |-> "error",
   tests |-> <<[name |-> IF inputs.testName # <<>> THEN inputs.testName
                         ELSE <<"Unknown Test">>,
                status |-> "error", message |-> thrown,
                execution_time |-> "0"]>>]

Init ==
  /\ pc = "start"
  /\ cfg \in Configs
  /\ inputs = NoInputs
  /\ setupExit = "none"
  /\ testRan = FALSE
  /\ output = <<>>
  /\ error = Null
  /\ parsedResults = EmptyTree
  /\ taskCount = 0
  /\ taskPassed = 0
  /\ status = "pass"
  /\ message = Null
  /\ maxScore = Whole(0)
  /\ passScore = Whole(0)
  /\ score = Whole(0)
  /\ thrown = Null
  /\ emitted = <<>>

\* inputs = getInputs()
GetInputs ==
  /\ pc = "start"
  /\ LET r == getInputs(cfg) IN
       IF r.threw
         THEN /\ thrown' = r.error
              /\ pc' = "catch"
              /\ UNCHANGED inputs
         ELSE /\ inputs' = r.value
              /\ pc' = "setup"
              /\ UNCHANGED thrown
  /\ UNCHANGED <<cfg, setupExit, testRan, output, error, parsedResults,
                 taskCount, taskPassed, status, message, maxScore, passScore,
                 score, emitted>>

\* RunSetup with the setup command's failure swallowed
RunSetupIgnoringFailure ==
  /\ pc = "setup"
  /\ IF inputs.setupCommand = <<>>
       THEN UNCHANGED setupExit
       ELSE \E outcome \in Outcomes : setupExit' = outcome
  /\ pc' = "test"
  /\ UNCHANGED <<cfg, inputs, testRan, output, error, parsedResults,
                 taskCount, taskPassed, status, message, maxScore, passScore,
                 score, thrown, emitted>>

\* if (inputs.setupCommand) execSync(inputs.setupCommand, ...)
RunSetup ==
  /\ pc = "setup"
  /\ IF inputs.setupCommand = <<>>
       THEN /\ pc' = "test"
            /\ UNCHANGED <<setupExit, thrown>>
       ELSE \E outcome \in Outcomes :
              /\ setupExit' = outcome
              /\ IF outcome = "ok"
                   THEN pc' = "test" /\ UNCHANGED thrown
                   ELSE pc' = "catch" /\ thrown' = ExecError(outcome)
  /\ UNCHANGED <<cfg, inputs, testRan, output, error, parsedResults,
                 taskCount, taskPassed, status, message, maxScore, passScore,
                 score, emitted>>

\* const {output, error} = executeTest(...) and the locals set after it
ExecuteTest ==
  /\ pc = "test"
  /\ \E outcome \in Outcomes, stdout \in Stdouts :
       LET r == executeTest(outcome, stdout) IN
         /\ output' = r[1]
         /\ error' = r[2]
  /\ testRan' = TRUE
  /\ status' = "pass"
  /\ message' = Null
  /\ maxScore' = inputs.maxScore
  /\ passScore' = inputs.passScore
  /\ score' = inputs.maxScore
  /\ pc' = "parse"
  /\ UNCHANGED <<cfg, inputs, setupExit, parsedResults, taskCount, taskPassed,
                 thrown, emitted>>

\* const parsedResults = parseGradleTestResults(output)
ParseResults ==
  /\ pc = "parse"
  /\ LET r == parseGradleTestResults(output) IN
       IF r.ok
         THEN /\ parsedResults' = r.tree
              /\ pc' = "count"
              /\ UNCHANGED thrown
         ELSE /\ thrown' = <<"TypeError: Cannot set properties of undefined">>
              /\ pc' = "catch"
              /\ UNCHANGED parsedResults
  /\ UNCHANGED <<cfg, inputs, setupExit, testRan, output, error, taskCount,
                 taskPassed, status, message, maxScore, passScore, score,
                 emitted>>

\* countPassedTests(parsedResults)
CountPassedTests ==
  /\ pc = "count"
  /\ LET c == countPassedTests(parsedResults) IN
       /\ taskCount' = c[1]
       /\ taskPassed' = c[2]
  /\ pc' = "score"
  /\ UNCHANGED <<cfg, inputs, setupExit, testRan, output, error, parsedResults,
                 status, message, maxScore, passScore, score, thrown, emitted>>

\* HierarchyScore with the weighted score not scaled by maxScore
HierarchyScoreUnscaled(max, pass, count, passed) ==
  IF IsZero(max)
    THEN <<Whole(count), TimesPoint8(Whole(count)), Whole(passed)>>
    ELSE <<max, pass, Over(passed, count)>>

\* the locals after the branch `if (maxScore === 0) ... else ...`:
\* <<maxScore, passScore, score>>
HierarchyScore(max, pass, count, passed) ==
  IF IsZero(max)
    THEN <<Whole(count), TimesPoint8(Whole(count)), Whole(passed)>>
    ELSE <<max, pass, Times(Over(passed, count), max)>>

\* ScoreByHierarchy with an execution error deciding the status first
ScoreByHierarchyErrorFirst ==
  /\ pc = "score"
  /\ taskCount > 0
  /\ LET s == HierarchyScore(maxScore, passScore, taskCount, taskPassed) IN
       /\ maxScore' = s[1]
       /\ passScore' = s[2]
       /\ score' = s[3]
       /\ IF error # Null
            THEN status' = "error" /\ message' = error
            ELSE IF Less(s[3], s[2])
              THEN status' = "fail" /\ message' = <<"You need earn more score.">>
              ELSE UNCHANGED <<status, message>>
  /\ pc' = "emit"
  /\ UNCHANGED <<cfg, inputs, setupExit, testRan, output, error, parsedResults,
                 taskCount, taskPassed, thrown, emitted>>

\* the branch taskCount > 0
ScoreByHierarchy ==
  /\ pc = "score"
  /\ taskCount > 0
  /\ LET s == HierarchyScore(maxScore, passScore, taskCount, taskPassed) IN
       /\ maxScore' = s[1]
       /\ passScore' = s[2]
       /\ score' = s[3]
       /\ IF Less(s[3], s[2])
            THEN status' = "fail" /\ message' = <<"You need earn more score.">>
            ELSE UNCHANGED <<status, message>>
  /\ pc' = "emit"
  /\ UNCHANGED <<cfg, inputs, setupExit, testRan, output, error, parsedResults,
                 taskCount, taskPassed, thrown, emitted>>

\* ScoreByComparison with the comparison made before the execution error
\* is looked at
ScoreByComparisonCompareFirst ==
  /\ pc = "score"
  /\ taskCount = 0
  /\ LET r == compareOutput(output, inputs.expectedOutput,
                            inputs.comparisonMethod) IN
       IF r.threw
         THEN /\ thrown' = r.error
              /\ pc' = "catch"
              /\ UNCHANGED <<status, message, score>>
       ELSE IF ~r.value
         THEN /\ status' = "fail"
              /\ message' = <<"Output does not match expected: ",
                              inputs.expectedOutput, " Got: ", output>>
              /\ score' = Whole(0)
              /\ pc' = "emit"
              /\ UNCHANGED thrown
       ELSE IF error # Null
         THEN /\ status' = "error"
              /\ message' = error
              /\ score' = Whole(0)
              /\ pc' = "emit"
              /\ UNCHANGED thrown
         ELSE /\ pc' = "emit"
              /\ UNCHANGED <<status, message, score, thrown>>
  /\ UNCHANGED <<cfg, inputs, setupExit, testRan, output, error, parsedResults,
                 taskCount, taskPassed, maxScore, passScore, emitted>>

\* the branch taskCount = 0: "No task found, fallback to io handling."
ScoreByComparison ==
  /\ pc = "score"
  /\ taskCount = 0
  /\ IF error # Null
       THEN /\ status' = "error"
            /\ message' = error
            /\ score' = Whole(0)
            /\ pc' = "emit"
            /\ UNCHANGED thrown
       ELSE LET r == compareOutput(output, inputs.expectedOutput,
                                   inputs.comparisonMethod) IN
            IF r.threw
              THEN /\ thrown' = r.error
                   /\ pc' = "catch"
                   /\ UNCHANGED <<status, message, score>>
            ELSE IF ~r.value
              THEN /\ status' = "fail"
                   /\ message' = <<"Output does not match expected: ",
                                   inputs.expectedOutput, " Got: ", output>>
                   /\ score' = Whole(0)
                   /\ pc' = "emit"
                   /\ UNCHANGED thrown
              ELSE /\ pc' = "emit"
                   /\ UNCHANGED <<status, message, score, thrown>>
  /\ UNCHANGED <<cfg, inputs, setupExit, testRan, output, error, parsedResults,
                 taskCount, taskPassed, maxScore, passScore, emitted>>

\* core.setOutput('result', btoa(JSON.stringify(result))) of the try block
EmitResult ==
  /\ pc = "emit"
  /\ emitted' = Append(emitted, ResultEnvelope)
  /\ pc' = "done"
  /\ UNCHANGED <<cfg, inputs, setupExit, testRan, output, error, parsedResults,
                 taskCount, taskPassed, status, message, maxScore, passScore,
                 score, thrown>>

\* the catch block without its core.setOutput
EmitErrorSwallowed ==
  /\ pc = "catch"
  /\ pc' = "done"
  /\ UNCHANGED <<cfg, inputs, setupExit, testRan, output, error, parsedResults,
                 taskCount, taskPassed, status, message, maxScore, passScore,
                 score, thrown, emitted>>

\* core.setOutput('result', btoa(JSON.stringify(result))) of the catch block
EmitError ==
  /\ pc = "catch"
  /\ emitted' = Append(emitted, ErrorEnvelope)
  /\ pc' = "done"
  /\ UNCHANGED <<cfg, inputs, setupExit, testRan, output, error, parsedResults,
                 taskCount, taskPassed, status, message, maxScore, passScore,
                 score, thrown>>

Next ==
  \/ GetInputs
  \/ RunSetup
  \/ ExecuteTest
  \/ ParseResults
  \/ CountPassedTests
  \/ ScoreByHierarchy
  \/ ScoreByComparison
  \/ EmitResult
  \/ EmitError

Spec == Init /\ [][Next]_vars

----------------------------------------------------------------------------
(* The parser and the aggregator on their own: every text of at most      *)
(* MaxParseLines lines, a line being a report line with a path of at most *)
(* MaxDepth keys or one of the lines that probe the regular expressions.  *)

KeysAt(level) == IF level <= 2 THEN {<<"a">>, <<"b">>} ELSE {<<"c">>}

RECURSIVE PathsOfLen(_)
PathsOfLen(n) ==
  IF n = 0 THEN {<<>>}
  ELSE {Append(p, k) : p \in PathsOfLen(n - 1), k \in KeysAt(n)}

Paths == UNION {PathsOfLen(n) : n \in 1..MaxDepth}

OtherLines ==
  {<<"x">>,
   <<"PASSED">>,
   <<"a", "PASSED">>,
   <<"SP", "a", "SP", "PASSED", "SP">>,
   <<"a", "SP", "PASSED", "SP", "x">>,
   <<"a", "SP", "PASSED", "SP", "b", "SP", "FAILED">>,
   <<"a", "SP", "SP", "PASSED">>,
   <<"a", "SP", ">", "SP", ">", "SP", "b", "SP", "FAILED">>}

ParseLinesSet ==
  {ReportLine(p, tok) : p \in Paths, tok \in {"PASSED", "FAILED"}}
    \cup OtherLines

RECURSIVE TextsOfLen(_)
TextsOfLen(n) ==
  IF n = 0 THEN {<<>>}
  ELSE IF n = 1 THEN ParseLinesSet
  ELSE {t \o <<"NL">> \o l : t \in TextsOfLen(n - 1), l \in ParseLinesSet}

ParseTexts == UNION {TextsOfLen(n) : n \in 0..MaxParseLines}

ParseConfig ==
  [testName |-> <<"t">>, setupCommand |-> <<>>, command |-> <<"cmd">>,
   expectedOutput |-> <<>>, comparisonMethod |-> "",
   passScore |-> Unset, maxScore |-> Unset]

\* run() just before parseGradleTestResults(output), for any output
ParseInit ==
  /\ pc = "parse"
  /\ cfg = ParseConfig
  /\ inputs = getInputs(ParseConfig).value
  /\ setupExit = "none"
  /\ testRan = TRUE
  /\ output \in ParseTexts
  /\ error = Null
  /\ parsedResults = EmptyTree
  /\ taskCount = 0
  /\ taskPassed = 0
  /\ status = "pass"
  /\ message = Null
  /\ maxScore = Whole(0)
  /\ passScore = Whole(0)
  /\ score = Whole(0)
  /\ thrown = Null
  /\ emitted = <<>>

ParseNext ==
  \/ ParseResults
  \/ CountPassedTests

ParseSpec == ParseInit /\ [][ParseNext]_vars

----------------------------------------------------------------------------
(* Properties *)

Done == pc = "done"

\* the one envelope of a finished run
Envelope == emitted[1]
Report1 == Envelope.tests[1]

\* the envelope came from the success path
Scored == "max_score" \in DOMAIN Envelope

JsonWhole(i) == [null |-> FALSE, n |-> i, d |-> 1]

\* the parse of the captured output, and its leaf counts
Parsed == parseGradleTestResults(output)
Leaves == countPassedTests(Parsed.tree)
ZeroLeaves == Parsed.ok /\ Leaves[1] = 0
SomeLeaves == Parsed.ok /\ Leaves[1] > 0

SetupRan == setupExit # "none"
SetupFailed == setupExit \in {"failed", "timeout"}

\* the order of the positions of run()
Rank(p) ==
  CASE p = "start" -> 0
    [] p = "setup" -> 1
    [] p = "test" -> 2
    [] p = "parse" -> 3
    [] p = "count" -> 4
    [] p = "score" -> 5
    [] p \in {"emit", "catch"} -> 6
    [] OTHER -> 7

\* the guard of some step of run() holds
CanStep ==
  \/ pc \in {"start", "setup", "test", "parse", "count", "emit", "catch"}
  \/ pc = "score" /\ (taskCount > 0 \/ taskCount = 0)

\* C1: every run of run() ends, and it ends with exactly one call of
\* core.setOutput('result', ...): never none, never two, on the success path
\* and on the catch path alike.  (A run that is not done can take a step,
\* every step moves run() forward, and the result is set exactly when the
\* run is done.)
C1_ExactlyOneResult ==
  /\ [](Len(emitted) <= 1)
  /\ [](Len(emitted) = 1 <=> Done)
  /\ [](Done \/ CanStep)
  /\ [][Rank(pc') > Rank(pc)]_vars

\* a run that raised after the test command ran, and emitted once
C1_Witness == Done /\ Len(emitted) = 1 /\ testRan /\ thrown # Null

\* C2: when the configured setup command fails or times out, the test
\* command is never started and nothing is scored: the run goes to the catch
\* path and emits an 'error' envelope with no max_score and no score; and
\* the test command is started only after a configured setup command has
\* completed successfully.
C2_SetupFailureAborts ==
  /\ SetupFailed =>
       /\ ~testRan
       /\ pc \in {"catch", "done"}
       /\ parsedResults = EmptyTree /\ taskCount = 0 /\ taskPassed = 0
       /\ Done =>
            /\ Envelope.status = "error"
            /\ Report1.status = "error"
            /\ thrown # Null /\ Report1.message = thrown
            /\ "max_score" \notin DOMAIN Envelope
            /\ "score" \notin DOMAIN Report1
  /\ (testRan /\ inputs.setupCommand # <<>>) => (SetupRan /\ ~SetupFailed)
  /\ (SetupRan /\ pc = "test") => setupExit = "ok"

\* a run whose setup command timed out
C2_Witness == Done /\ SetupRan /\ thrown = SpawnTimedOut /\ ~testRan

\* C3: zero leaves and an execution error of the test command give an
\* envelope with status 'error', score 0 and the execution error as message,
\* whatever expected-output and comparison-method are; the comparator is not
\* consulted.
C3_ErrorWithoutLeaves ==
  (Done /\ testRan /\ error # Null /\ ZeroLeaves) =>
     /\ thrown = Null
     /\ Scored
     /\ Envelope.status = "error"
     /\ Report1.status = "error"
     /\ Report1.score = JsonWhole(0)
     /\ Report1.message = error

\* an execution error on an output that matches the expected value
C3_Witness ==
  /\ Done /\ error # Null /\ ZeroLeaves
  /\ inputs.comparisonMethod = "exact"
  /\ output = inputs.expectedOutput /\ output # <<>>
  /\ Envelope.status = "error"

\* expected-output compiles as a regular expression, where that matters
Comparable ==
  inputs.comparisonMethod = "regex" => RegexCompiles(inputs.expectedOutput)

\* the output matches as the claim words it: exact is equality, contains is
\* expected being a part of the output, regex is expected matching
\* somewhere in the output
Matching ==
  CASE inputs.comparisonMethod = "exact" -> output = inputs.expectedOutput
    [] inputs.comparisonMethod = "contains" ->
         \E i \in 0..Len(output), j \in 0..Len(output) :
           SubSeq(output, i + 1, j) = inputs.expectedOutput
    [] inputs.comparisonMethod = "regex" ->
         Comparable /\ RegexTest(inputs.expectedOutput, output)
    [] OTHER -> FALSE

Mismatch ==
  <<"Output does not match expected: ", inputs.expectedOutput, " Got: ", output>>

\* C4: on the zero-leaf fallback with no execution error and a valid
\* comparison method the status is 'pass' exactly when compareOutput is
\* true, a mismatch gives 'fail' with score 0 and a message holding the
\* expected and the actual output; the comparator is consulted on this
\* branch only.
C4_ComparisonFallback ==
  /\ (Done /\ testRan /\ error = Null /\ ZeroLeaves
        /\ inputs.comparisonMethod \in Methods) =>
       /\ (Envelope.status = "pass") <=> Matching
       /\ (Comparable /\ ~Matching) =>
            /\ Scored
            /\ Envelope.status = "fail"
            /\ Report1.status = "fail"
            /\ Report1.score = JsonWhole(0)
            /\ Report1.message = Mismatch
       /\ Matching =>
            /\ Scored
            /\ Report1.status = "pass"
            /\ Report1.message = Null
  /\ (Done /\ testRan /\ (SomeLeaves \/ (ZeroLeaves /\ error # Null))) =>
       /\ thrown = Null
       /\ Scored
       /\ Report1.message # Mismatch

\* a 'contains' comparison that failed
C4_Witness ==
  /\ Done /\ error = Null /\ ZeroLeaves
  /\ inputs.comparisonMethod = "contains"
  /\ inputs.expectedOutput = <<"x">> /\ output = <<"y">>
  /\ Envelope.status = "fail"

\* max-score is unset or <= 0
MaxScoreUnsetOrNotPositive ==
  cfg.maxScore.k = "unset" \/ (cfg.maxScore.k = "int" /\ cfg.maxScore.v <= 0)

\* C5: lazy mode: with at least one leaf and max-score unset or <= 0 the
\* envelope has max_score = taskCount, score = taskPassed and status 'fail'
\* exactly when taskPassed < 0.8 * taskCount, whatever pass-score is.
C5_LazyMode ==
  (Done /\ testRan /\ SomeLeaves /\ MaxScoreUnsetOrNotPositive) =>
     /\ Scored
     /\ Envelope.max_score = JsonWhole(Leaves[1])
     /\ Report1.score = JsonWhole(Leaves[2])
     /\ (Envelope.status = "fail") <=> (5 * Leaves[2] < 4 * Leaves[1])
     /\ Envelope.status \in {"pass", "fail"}

\* max-score is configured and > 0
MaxScoreConfigured == cfg.maxScore.k = "int" /\ cfg.maxScore.v > 0

\* the pass score the claim names: the configured one when positive, 80% of
\* max-score when unset or not positive
ClaimedPassScore ==
  IF cfg.passScore.k = "int" /\ cfg.passScore.v > 0
    THEN Whole(cfg.passScore.v)
    ELSE Frac(4 * cfg.maxScore.v, 5)

\* C6: weighted mode: with at least one leaf and max-score > 0,
\* score = (taskPassed / taskCount) * maxScore, max_score = maxScore, and the
\* status is 'fail' exactly when score < passScore, passScore being the
\* configured pass-score when positive and 80% of maxScore when unset or
\* not positive.
C6_WeightedMode ==
  (Done /\ testRan /\ SomeLeaves /\ MaxScoreConfigured
     /\ cfg.passScore.k \in {"unset", "int"}) =>
     /\ Scored
     /\ Envelope.max_score = JsonWhole(cfg.maxScore.v)
     /\ Report1.score = JsonNumber(Frac(Leaves[2] * cfg.maxScore.v, Leaves[1]))
     /\ (Envelope.status = "fail") <=>
          Less(Frac(Leaves[2] * cfg.maxScore.v, Leaves[1]), ClaimedPassScore)
     /\ Envelope.status \in {"pass", "fail"}
     /\ Report1.status = Envelope.status

\* all but one of MaxLeaves leaves passed, max-score set, pass-score unset:
\* the score is 80% of max-score, which passes
C6_Witness ==
  /\ Done /\ SomeLeaves
  /\ Leaves = <<MaxLeaves, MaxLeaves - 1>>
  /\ cfg.maxScore = Digits(MaxScoreCfg) /\ cfg.passScore = Unset
  /\ Scored
  /\ Report1.score = JsonNumber(Frac((MaxLeaves - 1) * MaxScoreCfg, MaxLeaves))

\* the run ended with a configuration error
EndedWithConfigError ==
  /\ Done
  /\ thrown # Null
  /\ thrown[1] \in {"Input required and not supplied: ",
                    "Invalid comparison method: "}

RejectedUpFront ==
  \/ cfg.testName = <<>>
  \/ cfg.command = <<>>
  \/ (cfg.comparisonMethod # "" /\ cfg.comparisonMethod \notin Methods)

LastLine == Trim(SplitLines(output)[Len(SplitLines(output))])
LastPath == SplitArrow(LineMatch(LastLine)[1])
LastLeaf == IF LineMatch(LastLine)[2] = "PASSED" THEN "true" ELSE "false"

\* C8: a path segment that is not the last one is always turned into a
\* nested object, also when a leaf of that name is there: the line's keys
\* before the last are objects after it is parsed, its last key is its
\* leaf, the leaf is counted and parsing does not raise.
C8_BranchReplacesLeaf ==
  (pc # "parse" /\ LineMatch(LastLine) # <<>>) =>
     /\ pc # "catch"
     /\ \A i \in 1..(Len(LastPath) - 1) :
          /\ SubSeq(LastPath, 1, i) \in DOMAIN parsedResults
          /\ parsedResults[SubSeq(LastPath, 1, i)] = "object"
     /\ LastPath \in DOMAIN parsedResults
     /\ parsedResults[LastPath] = LastLeaf
     /\ pc = "score" => taskCount >= 1

\* the matching lines of the parsed text, in order: <<path, leaf>>
RECURSIVE MatchesOf(_, _)
MatchesOf(lines, i) ==
  IF i > Len(lines) THEN <<>>
  ELSE LET m == LineMatch(Trim(lines[i])) IN
       (IF m = <<>> THEN <<>>
        ELSE <<<<SplitArrow(m[1]),
                 IF m[2] = "PASSED" THEN "true" ELSE "false">>>>)
         \o MatchesOf(lines, i + 1)

Matches == MatchesOf(SplitLines(output), 1)
MatchedPaths == {Matches[i][1] : i \in 1..Len(Matches)}

\* the leaf of the last matching line with path p
LastWith(p) ==
  LET i == CHOOSE x \in 1..Len(Matches) :
             /\ Matches[x][1] = p
             /\ \A y \in 1..Len(Matches) : Matches[y][1] = p => y <= x
  IN Matches[i][2]

LastOccurrenceWins ==
  /\ pc # "catch"
  /\ \A p \in MatchedPaths :
       p \in DOMAIN parsedResults /\ parsedResults[p] = LastWith(p)
  /\ pc = "score" =>
       /\ taskCount = Cardinality(MatchedPaths)
       /\ taskPassed = Cardinality({p \in MatchedPaths : LastWith(p) = "true"})

\* C9 as claimed: after parse(text) every path of a matching line holds the
\* leaf of the last matching line with that path, and taskCount and
\* taskPassed are the number of these leaves and of the true ones.
C9_LastOccurrenceWins == pc # "parse" => LastOccurrenceWins

\* no matching line's path is a proper prefix of another's
PrefixFree ==
  \A p \in MatchedPaths, q \in MatchedPaths : IsPrefix(p, q) => p = q

\* C9 as amended: when no matching line's path is a proper prefix of
\* another matching line's path, parse(text) does not raise, every path of a
\* matching line holds the leaf of the last matching line with that path,
\* and taskCount and taskPassed are the number of these leaves and of the
\* true ones.
C9_LastOccurrenceWinsPrefixFree ==
  (pc # "parse" /\ PrefixFree) => LastOccurrenceWins

\* the same path first PASSED, then FAILED
C9_Witness ==
  /\ pc = "score"
  /\ output = ReportLine(<<<<"a">>, <<"b">>>>, "PASSED") \o <<"NL">>
                \o ReportLine(<<<<"a">>, <<"b">>>>, "FAILED")
  /\ parsedResults[<<<<"a">>, <<"b">>>>] = "false"
  /\ taskCount = 1 /\ taskPassed = 0

\* C10 as claimed: in every run where the test command recorded an
\* execution error the emitted status is 'error', never 'pass' or 'fail',
\* also when the captured output holds leaves.
C10_ExecutionErrorIsError ==
  (Done /\ testRan /\ error # Null) => Envelope.status = "error"

\* C10 as amended: in a run where the test command recorded an execution
\* error the emitted status is 'error' when the captured output holds no
\* leaf (or cannot be parsed); when it holds leaves the status is 'fail' if
\* score < passScore and 'pass' otherwise, and never 'error'.
C10_ExecutionErrorWithoutLeavesIsError ==
  (Done /\ testRan /\ error # Null) =>
     IF SomeLeaves
       THEN /\ Scored
            /\ Envelope.status = IF Less(score, passScore) THEN "fail" ELSE "pass"
            /\ Report1.status = Envelope.status
       ELSE /\ Envelope.status = "error"
            /\ Report1.status = "error"

\* a timed out test command whose partial output holds leaves that pass
C10_Witness ==
  /\ Done /\ SomeLeaves
  /\ error = <<"Command was killed due to timeout">>
  /\ Envelope.status = "pass"

====
